---- MODULE Spec2Model ----
(***************************************************************************)
(* chronocalc.py: search of one year for the instants at which the Sun or  *)
(* the Moon stands at a given altitude/azimuth.                            *)
(*                                                                         *)
(* Units.  Instants are minutes since Jan 1 00:00 of the year searched.    *)
(* Angles are integers, Degree of them to one degree; the differences, the *)
(* product and round() are computed on the doubles they stand for.  The    *)
(* year is HoursInYear hours long instead of 8760 or 8784.                 *)
(***************************************************************************)
EXTENDS Integers, Sequences, FiniteSets, TLC

Degree == 1000
MinutesPerHour == 60
HoursInYear == 2

DefaultStep == 15
AccurateStep == 2
MoonStep == 15

MoonTol == 2 * Degree
SunTol == 3 * Degree

(* a name not bound yet *)
None == 0 - 1

Abs(x) == IF x < 0 THEN -x ELSE x

(* datetime(year, 1, 1, 0, 00, 00) and datetime(year, 12, 31, 23, 59, 00) *)
Jan1 == 0
Dec31 == HoursInYear * MinutesPerHour - 1

(***************************************************************************)
(* The inputs.                                                             *)
(***************************************************************************)

(* args.alt, args.az *)
Targets == { <<30300, 359000>>, <<30300, 1300>> }

(* What pos.compute(location) can leave in pos: <<alt, az, moon_phase>>,    *)
(* moon_phase in 1/10000 (read in Moon mode only).  alt and az are in      *)
(* radians in the code, which reads them as pos.alt/degree, pos.az/degree:  *)
(* every alt and az here is such a quotient, the double nearest to it the  *)
(* result of the division for some double pos.alt, pos.az.  Some           *)
(* components are a half of the last place kept by round; some are a       *)
(* tolerance away from a target, or so near to it that their difference    *)
(* rounds to it.                                                           *)
Far == <<-10 * Degree, 90 * Degree, 5000>>
Sky == { <<30400, 359600, 5235>>,
         <<30700, 359300, 15>>,
         <<33300, 1315, 9986>>,
         <<30400, 356000, 5000>>,
         <<30335, 1000, 2500>>,
         <<30400, 4300, 5000>> }

(* The body is away from the target (Far) except at the instants that the  *)
(* default grid and the accurate grid both sample: the same sky is then    *)
(* searched whatever the step.                                             *)
Near(t) == t % DefaultStep = 0 /\ t % AccurateStep = 0

(* ephem.next_solstice(Jan 1): an instant inside the year, at any minute   *)
(* of its hour.                                                            *)
SolsticeMinutes == {0, 37}
Solstices == { h * MinutesPerHour + m : h \in 1..(HoursInYear - 1), m \in SolsticeMinutes }

(***************************************************************************)
(* The pure parts of the code.                                             *)
(***************************************************************************)

(* parser.add_argument('--accurate', action='store_const', const=2, default=15) *)
Accuracy(flag) == IF flag THEN AccurateStep ELSE DefaultStep

(* date_solstice.replace(minute=0, second=0, microsecond=0) *)
TruncIdentity(m) == m
TruncHour(m) == m - (m % MinutesPerHour)

(* rrule(MINUTELY, interval, dtstart, until): the iterator yields dt while  *)
(* dt <= until, then adds interval minutes.                                 *)
RruleExclusive(dt, until) == dt < until
RruleYields(dt, until) == dt <= until

(***************************************************************************)
(* The floats.  An angle x stands for the double nearest to x/Degree, a    *)
(* moon_phase p for the double nearest to p/PhaseUnit.  A non-negative     *)
(* double is held exactly, in fixed point: a sequence of limbs of LimbBits *)
(* bits, the most significant first.  Seven limbs hold an angle or a       *)
(* phase, the last FracLimbs of them below the binary point; fourteen hold *)
(* a product of two angles, the last 2 * FracLimbs below the point.        *)
(***************************************************************************)
MantissaBits == 53
PhaseUnit == 10000

LimbBits == 14
FracLimbs == 5
Base == 2^LimbBits

BitLength(n) == CHOOSE k \in 0..30 : n < 2^k /\ (k = 0 \/ 2^(k - 1) <= n)

(* the limb j places above the least significant one *)
Limb(x, j) == x[Len(x) - j]

(* the number of significant bits of x *)
Length(x) ==
    LET set == {i \in 1..Len(x) : x[i] # 0}
        top == CHOOSE i \in set : \A j \in set : i <= j
    IN  IF set = {} THEN 0
        ELSE (Len(x) - top) * LimbBits + BitLength(x[top])

(* the bit of weight 2^pos, counted from the least significant bit of x *)
BitAt(x, pos) == (Limb(x, pos \div LimbBits) \div 2^(pos % LimbBits)) % 2

(* some bit of x below the bit of weight 2^m is set *)
BelowNonZero(x, m) ==
    \E j \in 0..(Len(x) - 1) :
        IF (j + 1) * LimbBits <= m THEN Limb(x, j) # 0
        ELSE j * LimbBits < m /\ Limb(x, j) % 2^(m - j * LimbBits) # 0

(* x with the bits below the bit of weight 2^k cleared *)
Truncate(x, k) ==
    [i \in 1..Len(x) |->
        LET j == Len(x) - i
        IN  IF (j + 1) * LimbBits <= k THEN 0
            ELSE IF j * LimbBits < k
                 THEN (x[i] \div 2^(k - j * LimbBits)) * 2^(k - j * LimbBits)
                 ELSE x[i]]

(* 2^k in n limbs *)
PowerOfTwo(k, n) ==
    [i \in 1..n |-> IF n - i = k \div LimbBits THEN 2^(k % LimbBits) ELSE 0]

RECURSIVE AddFrom(_, _, _, _)
AddFrom(x, y, i, carry) ==
    IF i = 0 THEN <<>>
    ELSE LET t == x[i] + y[i] + carry
         IN  Append(AddFrom(x, y, i - 1, t \div Base), t % Base)

(* x + y, of the same number of limbs *)
Add(x, y) == AddFrom(x, y, Len(x), 0)

RECURSIVE SubFrom(_, _, _, _)
SubFrom(x, y, i, borrow) ==
    IF i = 0 THEN <<>>
    ELSE LET t == x[i] - y[i] - borrow
         IN  Append(SubFrom(x, y, i - 1, IF t < 0 THEN 1 ELSE 0),
                    IF t < 0 THEN t + Base ELSE t)

(* x - y, x >= y of the same number of limbs *)
Sub(x, y) == SubFrom(x, y, Len(x), 0)

RECURSIVE ScaleFrom(_, _, _, _)
ScaleFrom(x, m, i, carry) ==
    IF i = 0 THEN <<>>
    ELSE LET t == x[i] * m + carry
         IN  Append(ScaleFrom(x, m, i - 1, t \div Base), t % Base)

RECURSIVE ColumnSum(_, _, _, _)
ColumnSum(x, y, c, i) ==
    IF i < 0 THEN 0
    ELSE (IF i < Len(x) /\ c - i < Len(y) THEN Limb(x, i) * Limb(y, c - i) ELSE 0)
         + ColumnSum(x, y, c, i - 1)

RECURSIVE MulFrom(_, _, _, _)
MulFrom(x, y, c, carry) ==
    IF c = Len(x) + Len(y) THEN <<>>
    ELSE LET t == ColumnSum(x, y, c, c) + carry
         IN  Append(MulFrom(x, y, c + 1, t \div Base), t % Base)

(* x * y exactly, in Len(x) + Len(y) limbs *)
Mul(x, y) == MulFrom(x, y, 0, 0)

(* the sign of x - y, of the same number of limbs *)
CompareLimbs(x, y) ==
    LET differ == {i \in 1..Len(x) : x[i] # y[i]}
        first == CHOOSE i \in differ : \A j \in differ : i <= j
    IN  IF differ = {} THEN 0
        ELSE IF x[first] > y[first] THEN 1 ELSE -1

RECURSIVE Quotients(_, _, _)
Quotients(r, d, k) ==
    IF k = 0 THEN <<>>
    ELSE <<(r * Base) \div d>> \o Quotients((r * Base) % d, d, k - 1)

RECURSIVE Remainder(_, _, _)
Remainder(r, d, k) ==
    IF k = 0 THEN r ELSE Remainder((r * Base) % d, d, k - 1)

(* n/d, n >= 0, cut after FracLimbs limbs below the point: <<limbs, more>>, *)
(* more telling whether anything non-zero was cut                          *)
Expand(n, d) ==
    << <<(n \div d) \div Base, (n \div d) % Base>> \o Quotients(n % d, d, FracLimbs),
       Remainder(n % d, d, FracLimbs) # 0 >>

(* round to nearest, ties to even: the double nearest to x, more telling  *)
(* whether anything non-zero follows x                                     *)
Nearest(x, more) ==
    LET k     == Length(x) - MantissaBits
        half  == BitAt(x, k - 1) = 1
        above == more \/ BelowNonZero(x, k - 1)
        odd   == BitAt(x, k) = 1
        low   == Truncate(x, k)
    IN  IF k <= 0 THEN x
        ELSE IF half /\ (above \/ odd) THEN Add(low, PowerOfTwo(k, Len(x)))
        ELSE low

(* the double nearest to n/d, n >= 0 *)
Double(n, d) ==
    LET e == Expand(n, d)
    IN  Nearest(e[1], e[2])

(* v * 100 in double arithmetic *)
Times100(v) == Nearest(ScaleFrom(v, 100, Len(v), 0), FALSE)

(* the sign of v - n/d *)
Compare(v, n, d) ==
    LET e == Expand(n, d)
        c == CompareLimbs(v, e[1])
    IN  IF c # 0 THEN c
        ELSE IF e[2] THEN -1 ELSE 0

(* abs(a - b) in double arithmetic, of the doubles the angles x and y      *)
(* stand for                                                               *)
AbsDifference(x, y) ==
    LET a == Double(Abs(x), Degree)
        b == Double(Abs(y), Degree)
    IN  IF (x < 0) = (y < 0)
        THEN Nearest(IF CompareLimbs(a, b) >= 0 THEN Sub(a, b) ELSE Sub(b, a), FALSE)
        ELSE Nearest(Add(a, b), FALSE)

(* abs(pos.az/degree - searchaz) and abs(pos.alt/degree - searchalt) *)
AzWrapped(az, searchaz) ==
    IF Abs(az - searchaz) > 180 * Degree
    THEN Double(360 * Degree - Abs(az - searchaz), Degree)
    ELSE AbsDifference(az, searchaz)
AzDeviation(az, searchaz) == AbsDifference(az, searchaz)
AltDeviation(alt, searchalt) == AbsDifference(alt, searchalt)

(* ... < 2 (Moon), ... < 3 (Sun): a double against the int tol/Degree *)
WithinInclusive(dev, tol) == Compare(dev, tol, Degree) <= 0
Within(dev, tol) == Compare(dev, tol, Degree) < 0

(* the condition of the if in both loops *)
Accepts(p, searchalt, searchaz, tol) ==
    /\ Within(AltDeviation(p[1], searchalt), tol)
    /\ Within(AzDeviation(p[2], searchaz), tol)

(* closeby: the product of the two deviations in double arithmetic *)
Closeby(p, searchalt, searchaz) ==
    Nearest(Mul(AltDeviation(p[1], searchalt), AzDeviation(p[2], searchaz)), FALSE)

(* round(v, n) of a double v that stands for the decimal 10*q + 5 of the  *)
(* place after the last one kept: correctly rounded, so the side of the    *)
(* half on which v lies decides, and the even neighbour when v is the half *)
RoundHalf(q, side) ==
    IF side > 0 THEN q + 1
    ELSE IF side < 0 THEN q
    ELSE IF q % 2 = 0 THEN q ELSE q + 1

(* round(pos.alt/degree, 2), round(pos.az/degree, 2) *)
Round2(x) ==
    LET a == Abs(x)
        q == a \div 10
        r == a % 10
        n == IF r < 5 THEN q
             ELSE IF r > 5 THEN q + 1
             ELSE RoundHalf(q, Compare(Double(a, Degree), a, Degree))
    IN  (IF x < 0 THEN -10 ELSE 10) * n

(* round(pos.moon_phase*100, 1), in tenths of a percent *)
Illumination(phase) ==
    LET q == phase \div 10
        r == phase % 10
    IN  IF r < 5 THEN q
        ELSE IF r > 5 THEN q + 1
        ELSE RoundHalf(q, Compare(Times100(Double(phase, PhaseUnit)), phase, 100))

(* the tuple appended to results *)
SunEntry(p, t, searchalt, searchaz) ==
    <<Round2(p[1]), Round2(p[2]), t, Closeby(p, searchalt, searchaz)>>

(* the row added to tab; the arrow object denotes the instant timewindow *)
MoonRow(p, t) == <<t, Round2(p[1]), Round2(p[2]), Illumination(p[3])>>

(* results.sort(key=lambda results:results[3]): stable, ascending in the   *)
(* doubles closeby                                                         *)
RECURSIVE InsertBefore(_, _)
InsertBefore(e, s) ==
    IF s = <<>> THEN <<e>>
    ELSE IF CompareLimbs(e[4], Head(s)[4]) <= 0 THEN <<e>> \o s
    ELSE <<Head(s)>> \o InsertBefore(e, Tail(s))

RECURSIVE InsertAfter(_, _)
InsertAfter(e, s) ==
    IF s = <<>> THEN <<e>>
    ELSE IF CompareLimbs(e[4], Head(s)[4]) < 0 THEN <<e>> \o s
    ELSE <<Head(s)>> \o InsertAfter(e, Tail(s))

RECURSIVE SortUnstable(_)
SortUnstable(r) ==
    IF r = <<>> THEN <<>>
    ELSE InsertBefore(r[Len(r)], SortUnstable(SubSeq(r, 1, Len(r) - 1)))

RECURSIVE SortStable(_)
SortStable(r) ==
    IF r = <<>> THEN <<>>
    ELSE InsertAfter(r[Len(r)], SortStable(SubSeq(r, 1, Len(r) - 1)))

SortByCloseby(r) == SortStable(r)

(* len(results1) < 2 *)
FewerThanOne(r) == Len(r) < 1
Insufficient(r) == Len(r) < 2

(* calculate_sun(results1, ..., date_start, date_solstice, accuracy) and    *)
(* calculate_sun(results2, ..., date_solstice, date_end, accuracy)          *)
WindowA(ds) == <<Jan1, ds>>
WindowBAfter(ds) == <<ds + 1, Dec31>>
WindowB(ds) == <<ds, Dec31>>

NoSolution == "No possible solution found. Please check the given parameters."
MoonHeader == "On the following dates and times the moon is closest to the given parameters:"
SunHeader == "On the following dates and times the sun is closest to the given parameters:"

(* if empty_table: print(message) else: print(header); print(tab) *)
MoonPrintsAlways(empty, t) == <<MoonHeader, t>>
MoonPrints(empty, t) == IF empty THEN <<NoSolution>> ELSE <<MoonHeader, t>>

(***************************************************************************)
(* The state.                                                              *)
(***************************************************************************)
VARIABLES
    pc,             \* where the run is
    moon,           \* args.moon
    accurate,       \* --accurate was given
    accuracy,       \* args.accuracy
    searchalt,      \* args.alt
    searchaz,       \* args.az
    solstice,       \* ephem.next_solstice(...) as returned
    date_solstice,  \* date_solstice after the replace
    calls,          \* the <<calc_start, calc_end>> of each calculate_sun call
    interval,       \* interval of the running rrule
    until,          \* until of the running rrule
    dt,             \* the instant the rrule yields next
    timewindow,     \* the loop variable
    pos,            \* the body as last computed
    atsolstice,     \* what the Oracle answered at date_solstice (Sun mode)
    sampled,        \* the instants each loop has sampled, one sequence per loop
    accepted,       \* the <<instant, pos>> each loop has accepted, in the order met
    results1,
    results2,
    tab,            \* the rows of the Moon table
    empty_table,
    stdout,         \* what was printed
    stderr,         \* the message of sys.exit
    exit            \* how the run ended

vars == <<pc, moon, accurate, accuracy, searchalt, searchaz, solstice,
          date_solstice, calls, interval, until, dt, timewindow, pos,
          atsolstice, sampled, accepted, results1, results2, tab,
          empty_table, stdout, stderr, exit>>

Init ==
    /\ pc = "main"
    /\ moon \in BOOLEAN
    /\ accurate \in BOOLEAN
    /\ \E tg \in Targets : searchalt = tg[1] /\ searchaz = tg[2]
    /\ accuracy = None
    /\ solstice = None
    /\ date_solstice = None
    /\ calls = <<>>
    /\ interval = None
    /\ until = None
    /\ dt = None
    /\ timewindow = None
    /\ pos = Far
    /\ atsolstice = Far
    /\ sampled = <<>>
    /\ accepted = <<>>
    /\ results1 = <<>>
    /\ results2 = <<>>
    /\ tab = <<>>
    /\ empty_table = TRUE
    /\ stdout = <<>>
    /\ stderr = <<>>
    /\ exit = "running"

(* The Oracle: a function of the instant.  date_solstice is the one        *)
(* instant a run asks about twice, so its answer is the one kept.          *)
Oracle(t) ==
    IF ~moon /\ t = date_solstice /\ Len(calls) = 2 THEN {atsolstice}
    ELSE IF Near(t) THEN Sky \cup {Far}
    ELSE {Far}

AppendLast(ss, x) == [ss EXCEPT ![Len(ss)] = Append(@, x)]

(***************************************************************************)
(* main: the arguments are parsed, the elevation looked up (it does not    *)
(* enter the search), and the search of the chosen body is called.         *)
(***************************************************************************)
Main ==
    /\ pc = "main"
    /\ accuracy' = Accuracy(accurate)
    /\ pc' = IF moon THEN "get_moon_position" ELSE "get_sun_position"
    /\ UNCHANGED <<moon, accurate, searchalt, searchaz, solstice, date_solstice,
                   calls, interval, until, dt, timewindow, pos, atsolstice,
                   sampled, accepted, results1, results2, tab, empty_table,
                   stdout, stderr, exit>>

(***************************************************************************)
(* get_moon_position                                                       *)
(***************************************************************************)
MoonBegin ==
    /\ pc = "get_moon_position"
    /\ tab' = <<>>
    /\ empty_table' = TRUE
    /\ interval' = MoonStep
    /\ dt' = Jan1
    /\ until' = Dec31
    /\ sampled' = Append(sampled, <<>>)
    /\ accepted' = Append(accepted, <<>>)
    /\ pc' = "moon_loop"
    /\ UNCHANGED <<moon, accurate, accuracy, searchalt, searchaz, solstice,
                   date_solstice, calls, timewindow, pos, atsolstice,
                   results1, results2, stdout, stderr, exit>>

MoonTick ==
    /\ pc = "moon_loop"
    /\ RruleYields(dt, until)
    /\ timewindow' = dt
    /\ dt' = dt + interval
    /\ sampled' = AppendLast(sampled, dt)
    /\ pos' \in Oracle(dt)
    /\ IF Accepts(pos', searchalt, searchaz, MoonTol)
       THEN /\ tab' = Append(tab, MoonRow(pos', dt))
            /\ empty_table' = FALSE
            /\ accepted' = AppendLast(accepted, <<dt, pos'>>)
       ELSE UNCHANGED <<tab, empty_table, accepted>>
    /\ UNCHANGED <<pc, moon, accurate, accuracy, searchalt, searchaz, solstice,
                   date_solstice, calls, interval, until, atsolstice,
                   results1, results2, stdout, stderr, exit>>

MoonReport ==
    /\ pc = "moon_loop"
    /\ ~RruleYields(dt, until)
    /\ stdout' = MoonPrints(empty_table, tab)
    /\ exit' = "normal"
    /\ pc' = "done"
    /\ UNCHANGED <<moon, accurate, accuracy, searchalt, searchaz, solstice,
                   date_solstice, calls, interval, until, dt, timewindow, pos,
                   atsolstice, sampled, accepted, results1, results2, tab,
                   empty_table, stderr>>

(***************************************************************************)
(* get_sun_position and calculate_sun                                      *)
(***************************************************************************)
SunSplit ==
    /\ pc = "get_sun_position"
    /\ \E s \in Solstices :
          /\ solstice' = s
          /\ date_solstice' = TruncHour(s)
    /\ pc' = "call_calculate_sun"
    /\ UNCHANGED <<moon, accurate, accuracy, searchalt, searchaz, calls,
                   interval, until, dt, timewindow, pos, atsolstice, sampled,
                   accepted, results1, results2, tab, empty_table, stdout,
                   stderr, exit>>

(* results1 = [] / results2 = [], and the call up to the rrule *)
SunCall ==
    /\ pc = "call_calculate_sun"
    /\ LET window == IF calls = <<>> THEN WindowA(date_solstice)
                                      ELSE WindowB(date_solstice)
       IN  /\ calls' = Append(calls, window)
           /\ dt' = window[1]
           /\ until' = window[2]
    /\ IF calls = <<>> THEN results1' = <<>> /\ UNCHANGED results2
                       ELSE results2' = <<>> /\ UNCHANGED results1
    /\ interval' = accuracy
    /\ sampled' = Append(sampled, <<>>)
    /\ accepted' = Append(accepted, <<>>)
    /\ pc' = "sun_loop"
    /\ UNCHANGED <<moon, accurate, accuracy, searchalt, searchaz, solstice,
                   date_solstice, timewindow, pos, atsolstice, tab,
                   empty_table, stdout, stderr, exit>>

SunTick ==
    /\ pc = "sun_loop"
    /\ RruleYields(dt, until)
    /\ timewindow' = dt
    /\ dt' = dt + interval
    /\ sampled' = AppendLast(sampled, dt)
    /\ pos' \in Oracle(dt)
    /\ atsolstice' = IF dt = date_solstice THEN pos' ELSE atsolstice
    /\ IF Accepts(pos', searchalt, searchaz, SunTol)
       THEN /\ accepted' = AppendLast(accepted, <<dt, pos'>>)
            /\ IF Len(calls) = 1
               THEN /\ results1' = Append(results1, SunEntry(pos', dt, searchalt, searchaz))
                    /\ UNCHANGED results2
               ELSE /\ results2' = Append(results2, SunEntry(pos', dt, searchalt, searchaz))
                    /\ UNCHANGED results1
       ELSE UNCHANGED <<accepted, results1, results2>>
    /\ UNCHANGED <<pc, moon, accurate, accuracy, searchalt, searchaz, solstice,
                   date_solstice, calls, interval, until, tab, empty_table,
                   stdout, stderr, exit>>

(* the loop ends; results.sort(...); return results *)
SunReturn ==
    /\ pc = "sun_loop"
    /\ ~RruleYields(dt, until)
    /\ IF Len(calls) = 1
       THEN results1' = SortByCloseby(results1) /\ UNCHANGED results2
       ELSE results2' = SortByCloseby(results2) /\ UNCHANGED results1
    /\ pc' = IF Len(calls) = 1 THEN "call_calculate_sun" ELSE "check"
    /\ UNCHANGED <<moon, accurate, accuracy, searchalt, searchaz, solstice,
                   date_solstice, calls, interval, until, dt, timewindow, pos,
                   atsolstice, sampled, accepted, tab, empty_table, stdout,
                   stderr, exit>>

(* if len(results1) < 2: sys.exit(...) *)
SunFail ==
    /\ pc = "check"
    /\ Insufficient(results1)
    /\ stderr' = <<NoSolution>>
    /\ exit' = "SystemExit"
    /\ pc' = "done"
    /\ UNCHANGED <<moon, accurate, accuracy, searchalt, searchaz, solstice,
                   date_solstice, calls, interval, until, dt, timewindow, pos,
                   atsolstice, sampled, accepted, results1, results2, tab,
                   empty_table, stdout>>

(* tab.add_rows([... results1[0] ..., ... results2[0] ...]); print *)
SunReport ==
    /\ pc = "check"
    /\ ~Insufficient(results1)
    /\ IF results1 = <<>> \/ results2 = <<>>
       THEN /\ exit' = "IndexError"
            /\ UNCHANGED stdout
       ELSE /\ exit' = "normal"
            /\ stdout' = <<SunHeader,
                           << <<results1[1][3], results1[1][1], results1[1][2]>>,
                              <<results2[1][3], results2[1][1], results2[1][2]>> >> >>
    /\ pc' = "done"
    /\ UNCHANGED <<moon, accurate, accuracy, searchalt, searchaz, solstice,
                   date_solstice, calls, interval, until, dt, timewindow, pos,
                   atsolstice, sampled, accepted, results1, results2, tab,
                   empty_table, stderr>>

Next ==
    \/ Main
    \/ MoonBegin
    \/ MoonTick
    \/ MoonReport
    \/ SunSplit
    \/ SunCall
    \/ SunTick
    \/ SunReturn
    \/ SunFail
    \/ SunReport

Spec == Init /\ [][Next]_vars

(***************************************************************************)
(* The properties.                                                         *)
(***************************************************************************)
Last(s) == s[Len(s)]

(* a state right after an iteration of the running loop *)
AfterTick ==
    /\ pc \in {"moon_loop", "sun_loop"}
    /\ sampled # <<>>
    /\ Last(sampled) # <<>>
    /\ Last(Last(sampled)) = timewindow

(* the list the running loop appends to, and the field holding the instant *)
AddedNow ==
    IF pc = "moon_loop"
    THEN \E i \in 1..Len(tab) : tab[i][1] = timewindow
    ELSE LET r == IF Len(calls) = 1 THEN results1 ELSE results2
         IN  \E i \in 1..Len(r) : r[i][3] = timewindow

(* abs(a - b) of the two doubles the angles x and y stand for, exactly *)
ExactDifference(x, y) ==
    LET a == Double(Abs(x), Degree)
        b == Double(Abs(y), Degree)
    IN  IF (x < 0) = (y < 0)
        THEN (IF CompareLimbs(a, b) >= 0 THEN Sub(a, b) ELSE Sub(b, a))
        ELSE Add(a, b)

(* the deviations of pos from the target, as the doubles abs(a - b) that   *)
(* lines 51 and 75 compute, against tol degrees                            *)
BothComputedBelow(tol) ==
    /\ Compare(AbsDifference(pos[1], searchalt), tol, 1) < 0
    /\ Compare(AbsDifference(pos[2], searchaz), tol, 1) < 0

(* the exact differences of the doubles compared, against tol degrees *)
BothExactBelow(tol) ==
    /\ Compare(ExactDifference(pos[1], searchalt), tol, 1) < 0
    /\ Compare(ExactDifference(pos[2], searchaz), tol, 1) < 0

(* C1: right after any iteration, the sample just computed has been added  *)
(* to the list iff both its altitude and its azimuth deviation, the        *)
(* doubles abs(a - b) of the values compared, are strictly below 2 degrees *)
(* (Moon) or 3 degrees (Sun); a deviation equal to the tolerance is        *)
(* rejected, and the two values of an added sample are less than the       *)
(* tolerance apart on both axes.                                           *)
C1_StrictTolerance ==
    AfterTick =>
        LET tol == IF pc = "moon_loop" THEN 2 ELSE 3
        IN  /\ AddedNow <=> BothComputedBelow(tol)
            /\ AddedNow => BothExactBelow(tol)

(* Sun mode, target azimuth 359: a sample at azimuth 356, next to the      *)
(* target in altitude, is rejected, after another sample was accepted      *)
C1_Witness ==
    /\ AfterTick
    /\ pc = "sun_loop"
    /\ searchaz = 359 * Degree
    /\ pos[2] = 356 * Degree
    /\ Abs(pos[1] - searchalt) < 1 * Degree
    /\ ~AddedNow
    /\ Last(accepted) # <<>>

(* the windows whose search has returned, at the return of a search and   *)
(* from the return of the last one on                                      *)
Returned ==
    IF moon \/ calls = <<>> \/ pc = "sun_loop" THEN {}
    ELSE IF Len(calls) = 1 THEN {1} ELSE {1, 2}

ResultsOf(w) == IF w = 1 THEN results1 ELSE results2

(* C2: when a window's search has returned, its list holds the window's    *)
(* accepted samples, each with its score closeby, the double               *)
(* |delta alt| x |delta az| of line 76; element 0 is a sample of the       *)
(* window, no sample of the list has a lower score, and every other one of *)
(* the same score is later.                                                *)
C2_BestIsFirst ==
    \A w \in Returned :
        LET r == ResultsOf(w)
            acc == accepted[w]
        IN  /\ Len(r) = Len(acc)
            /\ \A j \in 1..Len(acc) :
                  \E k \in 1..Len(r) :
                     /\ r[k][3] = acc[j][1]
                     /\ r[k][4] = Closeby(acc[j][2], searchalt, searchaz)
            /\ r # <<>> => r[1][3] \in calls[w][1]..calls[w][2]
            /\ \A k \in 2..Len(r) :
                  /\ CompareLimbs(r[1][4], r[k][4]) <= 0
                  /\ r[1][4] = r[k][4] => r[1][3] < r[k][3]

(* WindowA accepted a worse sample first, then two of the same, lower      *)
(* score: the earlier of these two is element 0                            *)
C2_Witness ==
    /\ 1 \in Returned
    /\ Len(results1) >= 3
    /\ results1[1][4] = results1[2][4]
    /\ results1[1][3] < results1[2][3]
    /\ CompareLimbs(results1[2][4], results1[3][4]) < 0
    /\ accepted[1][1][1] = results1[3][3]

(* C3: get_sun_position searches exactly two windows, WindowA from Jan 1   *)
(* 00:00 to the solstice truncated to the hour, then WindowB from there    *)
(* to Dec 31 23:59; they share the boundary instant and nothing else.      *)
C3_TwoWindows ==
    ~moon =>
        /\ Len(calls) <= 2
        /\ pc \in {"check", "done"} => Len(calls) = 2
        /\ date_solstice # None =>
              /\ date_solstice % MinutesPerHour = 0
              /\ date_solstice <= solstice
              /\ solstice < date_solstice + MinutesPerHour
        /\ Len(calls) >= 1 => calls[1] = <<0, date_solstice>>
        /\ Len(calls) = 2 =>
              /\ calls[2] = <<date_solstice, HoursInYear * MinutesPerHour - 1>>
              /\ calls[1][1] <= calls[1][2]
              /\ calls[2][1] <= calls[2][2]
              /\ \A t \in 0..(HoursInYear * MinutesPerHour - 1) :
                    (t \in calls[1][1]..calls[1][2] /\ t \in calls[2][1]..calls[2][2])
                        <=> t = date_solstice

(* both windows searched, the solstice not on the hour *)
C3_Witness ==
    /\ ~moon
    /\ pc = "done"
    /\ Len(calls) = 2
    /\ solstice # date_solstice
    /\ Len(sampled[1]) > 1
    /\ Len(sampled[2]) > 1

(* C4: a Sun run ends with sys.exit and the message, and prints nothing,   *)
(* exactly when WindowA accepted fewer than 2 samples, whatever WindowB    *)
(* accepted; and it exits only after both windows were searched to the end.*)
C4_FailureIffFewerThanTwo ==
    (~moon /\ pc = "done") =>
        /\ (exit = "SystemExit") <=> (Len(accepted[1]) < 2)
        /\ exit = "SystemExit" =>
              /\ stderr = <<NoSolution>>
              /\ stdout = <<>>
              /\ Len(calls) = 2
              /\ Len(sampled) = 2
              /\ Last(sampled[1]) + interval > calls[1][2]
              /\ Last(sampled[2]) + interval > calls[2][2]
        /\ exit # "SystemExit" => stderr = <<>>

(* WindowA accepted exactly one sample, WindowB two: failure *)
C4_Witness ==
    /\ ~moon
    /\ pc = "done"
    /\ exit = "SystemExit"
    /\ Len(accepted[1]) = 1
    /\ Len(accepted[2]) = 2

(* C5: a Sun run whose WindowA accepted at least 2 samples ends normally   *)
(* with at most one match per window, also when WindowB accepted none.     *)
C5_CompletesWhenNotFailed ==
    (~moon /\ pc = "done" /\ Len(accepted[1]) >= 2) =>
        /\ exit = "normal"
        /\ Len(stdout) = 2
        /\ Len(stdout[2]) <= 2

(* C6: in Moon mode the table holds one row per accepted tick, in the      *)
(* order met, which is strictly increasing in time, unsorted and unpruned; *)
(* the run ends normally, printing the message when there is no row and    *)
(* the table otherwise.                                                    *)
C6_MoonTable ==
    (moon /\ sampled # <<>>) =>
        /\ Len(tab) = Len(accepted[1])
        /\ \A i \in 1..Len(tab) :
              /\ tab[i][1] = accepted[1][i][1]
              /\ tab[i][2] = Round2(accepted[1][i][2][1])
              /\ tab[i][3] = Round2(accepted[1][i][2][2])
              /\ \E k \in 1..Len(sampled[1]) : sampled[1][k] = tab[i][1]
        /\ \A i, j \in 1..Len(tab) : i < j => tab[i][1] < tab[j][1]
        /\ AfterTick =>
              (AddedNow <=> \E i \in 1..Len(accepted[1]) : accepted[1][i][1] = timewindow)
        /\ pc = "done" =>
              /\ exit = "normal"
              /\ stderr = <<>>
              /\ tab = <<>> => stdout = <<NoSolution>>
              /\ tab # <<>> => stdout = <<MoonHeader, tab>>

(* a finished Moon run with three rows *)
C6_Witness ==
    /\ moon
    /\ pc = "done"
    /\ Len(tab) = 3
    /\ stdout = <<MoonHeader, tab>>

(* the <<start, end>> of loop k *)
WindowOf(k) == IF moon THEN <<0, HoursInYear * MinutesPerHour - 1>> ELSE calls[k]

Finished(k) == k < Len(sampled) \/ pc \notin {"moon_loop", "sun_loop"}

(* C7: a loop over [start, end] with step s samples start + i*s for        *)
(* i = 0, 1, ... in increasing order, never an instant after end, and      *)
(* when it ends it has sampled exactly floor((end - start)/s) + 1 instants.*)
C7_GridCoverage ==
    \A k \in 1..Len(sampled) :
        LET w == WindowOf(k)
            n == Len(sampled[k])
        IN  /\ w[1] <= w[2]
            /\ \A i \in 1..n :
                  /\ sampled[k][i] = w[1] + (i - 1) * interval
                  /\ sampled[k][i] <= w[2]
            /\ Finished(k) => n = ((w[2] - w[1]) \div interval) + 1

(* WindowA ends on the grid and its end is sampled; WindowB's end is off   *)
(* the grid and the last sample is before it.                              *)
C7_Witness ==
    /\ ~moon
    /\ pc = "done"
    /\ interval = 2
    /\ Last(sampled[1]) = calls[1][2]
    /\ Len(sampled[1]) > 30
    /\ Last(sampled[2]) < calls[2][2]

(* C8: with --accurate the loop that main dispatches steps by 2 minutes,   *)
(* without it by 15 minutes.                                               *)
C8_AccurateStep ==
    \A k \in 1..Len(sampled) :
        \A i \in 1..(Len(sampled[k]) - 1) :
            sampled[k][i + 1] - sampled[k][i] = (IF accurate THEN 2 ELSE 15)

(* C9: with target azimuth 359 degrees, a sample at azimuth 1 degree is    *)
(* never added, in either mode, whatever its altitude.                     *)
C9_NoWraparound ==
    (AfterTick /\ searchaz = 359 * Degree /\ pos[2] = 1 * Degree) => ~AddedNow

(* Sun mode, target azimuth 359: the sample at azimuth 1, next to the      *)
(* target in altitude, is rejected                                         *)
C9_Witness ==
    /\ AfterTick
    /\ pc = "sun_loop"
    /\ searchaz = 359 * Degree
    /\ pos[2] = 1 * Degree
    /\ Abs(pos[1] - searchalt) < 1 * Degree
    /\ ~AddedNow

FullGrid(step) ==
    [i \in 1..(((HoursInYear * MinutesPerHour - 1) \div step) + 1) |-> (i - 1) * step]

(* C10: for both steps, WindowA's samples followed by WindowB's are the    *)
(* full-year grid with the hour-truncated solstice sampled twice, last in  *)
(* WindowA and first in WindowB, and every other instant once.             *)
C10_FullGridSolsticeTwice ==
    (~moon /\ pc \in {"check", "done"}) =>
        /\ interval = (IF accurate THEN 2 ELSE 15)
        /\ Len(sampled) = 2
        /\ Last(sampled[1]) = solstice - (solstice % MinutesPerHour)
        /\ Head(sampled[2]) = Last(sampled[1])
        /\ sampled[1] \o Tail(sampled[2]) = FullGrid(interval)

(* the sample at the solstice is the best match of both windows *)
C10_Witness ==
    /\ ~moon
    /\ pc = "done"
    /\ exit = "normal"
    /\ results1[1] = results2[1]
    /\ results1[1][3] = date_solstice
    /\ stdout[2][1] = stdout[2][2]

====
